---- MODULE Spec2Model ----
(***************************************************************************)
(* The EPUB indexing pipeline of src/main.rs: the catalog matcher, the     *)
(* page loop, the line cleaner, the 3-line window assembler and the        *)
(* chapter-title normalizer.                                               *)
(*                                                                         *)
(* A string is a sequence of characters.  A character is a one-character   *)
(* TLA+ string; the non-ASCII ones are written by code point:              *)
(*   "U+2026" = HORIZONTAL ELLIPSIS,  "U+2502" = BOX DRAWINGS VERTICAL,    *)
(*   "U+2500" = BOX DRAWINGS HORIZONTAL, "U+2534" / "U+252C" = the box     *)
(*   drawings UP-AND-HORIZONTAL / DOWN-AND-HORIZONTAL.                     *)
(***************************************************************************)
EXTENDS Integers, Sequences, FiniteSets, TLC

----------------------------------------------------------------------------
(* std string operations, computed on the characters *)

Upper == <<"A","B","C","D","E","F","G","H","I","J","K","L","M","N","O","P","Q","R","S","T","U","V","W","X","Y","Z">>
Lower == <<"a","b","c","d","e","f","g","h","i","j","k","l","m","n","o","p","q","r","s","t","u","v","w","x","y","z">>

\* char::to_ascii_lowercase
to_ascii_lowercase_char(c) ==
    IF \E i \in DOMAIN Upper : Upper[i] = c
    THEN Lower[CHOOSE i \in DOMAIN Upper : Upper[i] = c]
    ELSE c

\* str::to_ascii_lowercase
to_ascii_lowercase(s) == [i \in 1..Len(s) |-> to_ascii_lowercase_char(s[i])]

\* str::to_lowercase; on the ASCII letters of the titles it is the ASCII mapping
to_lowercase(s) == [i \in 1..Len(s) |-> to_ascii_lowercase_char(s[i])]

\* str::eq_ignore_ascii_case
eq_ignore_ascii_case(a, b) == to_ascii_lowercase(a) = to_ascii_lowercase(b)

\* str::starts_with
starts_with(s, p) == Len(p) <= Len(s) /\ SubSeq(s, 1, Len(p)) = p

\* str::ends_with
ends_with(s, p) == Len(p) <= Len(s) /\ SubSeq(s, Len(s) - Len(p) + 1, Len(s)) = p

\* str::contains
contains(s, p) == \E i \in 0..(Len(s) - Len(p)) : SubSeq(s, i + 1, i + Len(p)) = p

\* str::replace: the non-overlapping matches of `from`, left to right
RECURSIVE replace(_, _, _)
replace(s, from, to) ==
    IF s = << >> THEN << >>
    ELSE IF starts_with(s, from)
         THEN to \o replace(SubSeq(s, Len(from) + 1, Len(s)), from, to)
         ELSE <<Head(s)>> \o replace(Tail(s), from, to)

\* char::is_whitespace, on the characters of the model
is_whitespace(c) == c \in {" ", "\t"}

RECURSIVE trim_start(_)
trim_start(s) ==
    IF s # << >> /\ is_whitespace(Head(s)) THEN trim_start(Tail(s)) ELSE s

RECURSIVE trim_end(_)
trim_end(s) ==
    IF s # << >> /\ is_whitespace(s[Len(s)])
    THEN trim_end(SubSeq(s, 1, Len(s) - 1)) ELSE s

\* str::trim
trim(s) == trim_end(trim_start(s))

\* str::trim_start_matches(char)
RECURSIVE trim_start_matches(_, _)
trim_start_matches(s, c) ==
    IF s # << >> /\ Head(s) = c THEN trim_start_matches(Tail(s), c) ELSE s

\* char::is_ascii_digit
is_ascii_digit(c) == c \in {"0", "1", "2", "3", "4", "5", "6", "7", "8", "9"}

----------------------------------------------------------------------------
(* the catalog *)

all_books == <<
    [title |-> <<"T","h","e"," ","A","l","l","o","y"," ","o","f"," ","L","a","w">>, first_chapter_index |-> 7,
     last_chapter_index |-> 32, skippable_chapters |-> <<10, 16, 22, 26>>],
    [title |-> <<"S","h","a","d","o","w","s"," ","o","f"," ","S","e","l","f">>, first_chapter_index |-> 7,
     last_chapter_index |-> 37, skippable_chapters |-> <<8, 13, 31>>],
    [title |-> <<"T","h","e"," ","B","a","n","d","s"," ","o","f"," ","M","o","u","r","n","i","n","g">>, first_chapter_index |-> 7,
     last_chapter_index |-> 42, skippable_chapters |-> <<8, 13, 26>>],
    [title |-> <<"S","e","c","r","e","t"," ","H","i","s","t","o","r","y">>, first_chapter_index |-> 5,
     last_chapter_index |-> 35, skippable_chapters |-> <<7, 12, 16, 21, 25>>],
    [title |-> <<"W","a","r","b","r","e","a","k","e","r">>, first_chapter_index |-> 5,
     last_chapter_index |-> 65, skippable_chapters |-> << >>],
    [title |-> <<"T","h","e"," ","E","m","p","e","r","o","r","'","s"," ","S","o","u","l">>, first_chapter_index |-> 3,
     last_chapter_index |-> 18, skippable_chapters |-> << >>],
    [title |-> <<"T","h","e"," ","H","o","p","e"," ","o","f"," ","E","l","a","n","t","r","i","s">>, first_chapter_index |-> 28,
     last_chapter_index |-> 28, skippable_chapters |-> << >>] >>

is_in_arcanum_unbounded(title) ==
    title \in { <<"T","h","e"," ","H","o","p","e"," ","o","f"," ","E","l","a","n","t","r","i","s">>,
                <<"T","h","e"," ","E","l","e","v","e","n","t","h"," ","M","e","t","a","l">>,
                <<"A","l","l","o","m","a","n","c","e","r"," ","J","a","k"," ","a","n","d"," ","t","h","e"," ","P","i","t","s"," ","o","f"," ","E","l","t","a","n","i","a">>,
                <<"W","h","i","t","e"," ","S","a","n","d">>,
                <<"S","h","a","d","o","w","s"," ","f","o","r"," ","S","i","l","e","n","c","e"," ","i","n"," ","t","h","e"," ","F","o","r","e","s","t","s"," ","o","f"," ","H","e","l","l">>,
                <<"S","i","x","t","h"," ","o","f"," ","t","h","e"," ","D","u","s","k">>,
                <<"E","d","g","e","d","a","n","c","e","r">> }

\* faulty variant: the title is compared case-sensitively
book_matches_case_sensitive(epub_title, it) ==
    \/ contains(epub_title, it.title)
    \/ (contains(epub_title, <<"A","r","c","a","n","u","m"," ","U","n","b","o","u","n","d","e","d">>) /\ is_in_arcanum_unbounded(it.title))

\* the closure of all_books.iter().find(...)
book_matches(epub_title, it) ==
    \/ contains(to_lowercase(epub_title), to_lowercase(it.title))
    \/ (contains(epub_title, <<"A","r","c","a","n","u","m"," ","U","n","b","o","u","n","d","e","d">>) /\ is_in_arcanum_unbounded(it.title))

\* Iterator::find: the index of the first matching descriptor, 0 for None
find(epub_title) ==
    IF \E i \in DOMAIN all_books : book_matches(epub_title, all_books[i])
    THEN CHOOSE i \in DOMAIN all_books :
            /\ book_matches(epub_title, all_books[i])
            /\ \A j \in 1..(i - 1) : ~book_matches(epub_title, all_books[j])
    ELSE 0

----------------------------------------------------------------------------
(* line classification *)

is_ignorable_line(line) ==
    LET trimmed == trim(line) IN
        \/ trimmed = << >>
        \/ starts_with(trimmed, <<"#">>)
        \/ starts_with(trimmed, <<"U+2502">>)
        \/ starts_with(trimmed, <<"U+2500","U+2534">>)
        \/ starts_with(trimmed, <<"U+2500","U+252C">>)

borders == { <<"*"," ","*"," ","*">>, <<"~">>, <<"7","9","5","f","8","8","d","2","-","e","4","0","0","-","4","2","f","0","-","b","b","8","8","-","d","8","4","c","f","3","0","8","d","e","1","b">> }

\* faulty variant: the line is trimmed before it is compared
is_scene_border_trimmed(line) == trim(line) \in borders

\* faulty variant: a line that contains a sentinel is a border
is_scene_border_contains(line) == \E b \in borders : contains(line, b)

is_scene_border(line) == line \in borders

----------------------------------------------------------------------------
(* chapter titles *)

handle_secret_history_chapter(raw_chapter) ==
    <<"P","a","r","t"," ">> \o <<raw_chapter[2]>> \o <<","," ","C","h","a","p","t","e","r"," ">> \o <<raw_chapter[4]>>

\* faulty variant: the table has lost its first and last rows
map_by_hand_days_only(raw_chapter) ==
    CASE raw_chapter = <<"D","a","y","_","0","2",".","h","t","m","l">>   -> <<"D","a","y"," ","T","w","o">>
      [] OTHER -> raw_chapter

map_by_hand(raw_chapter) ==
    CASE raw_chapter = <<"P","r","o","l","o","g","u","e",".","h","t","m","l">> -> <<"P","r","o","l","o","g","u","e">>
      [] raw_chapter = <<"D","a","y","_","0","2",".","h","t","m","l">>   -> <<"D","a","y"," ","T","w","o">>
      [] raw_chapter = <<"D","a","y","_","0","3",".","h","t","m","l">>   -> <<"D","a","y"," ","T","h","r","e","e">>
      [] raw_chapter = <<"D","a","y","_","0","5",".","h","t","m","l">>   -> <<"D","a","y"," ","F","i","v","e">>
      [] raw_chapter = <<"D","a","y","_","1","2",".","h","t","m","l">>   -> <<"D","a","y"," ","T","w","e","l","v","e">>
      [] raw_chapter = <<"D","a","y","_","1","7",".","h","t","m","l">>   -> <<"D","a","y"," ","S","e","v","e","n","t","e","e","n">>
      [] raw_chapter = <<"D","a","y","_","3","0",".","h","t","m","l">>   -> <<"D","a","y"," ","T","h","i","r","t","y">>
      [] raw_chapter = <<"D","a","y","_","4","2",".","h","t","m","l">>   -> <<"D","a","y"," ","F","o","r","t","y","-","T","w","o">>
      [] raw_chapter = <<"D","a","y","_","5","8",".","h","t","m","l">>   -> <<"D","a","y"," ","F","i","f","t","y","-","E","i","g","h","t">>
      [] raw_chapter = <<"D","a","y","_","5","9",".","h","t","m","l">>   -> <<"D","a","y"," ","F","i","f","t","y","-","N","i","n","e">>
      [] raw_chapter = <<"D","a","y","_","7","0",".","h","t","m","l">>   -> <<"D","a","y"," ","S","e","v","e","n","t","y">>
      [] raw_chapter = <<"D","a","y","_","7","6",".","h","t","m","l">>   -> <<"D","a","y"," ","S","e","v","e","n","t","y","-","S","i","x">>
      [] raw_chapter = <<"D","a","y","_","8","5",".","h","t","m","l">>   -> <<"D","a","y"," ","E","i","g","h","t","y","-","F","i","v","e">>
      [] raw_chapter = <<"D","a","y","_","9","7",".","h","t","m","l">>   -> <<"D","a","y"," ","N","i","n","e","t","y","-","S","e","v","e","n">>
      [] raw_chapter = <<"D","a","y","_","9","8",".","h","t","m","l">>   -> <<"D","a","y"," ","N","i","n","e","t","y","-","E","i","g","h","t">>
      [] raw_chapter = <<"E","p","i","l","o","g","u","e",".","h","t","m","l">> -> <<"E","p","i","l","o","g","u","e",":"," ","D","a","y"," ","O","n","e"," ","H","u","n","d","r","e","d"," ","a","n","d"," ","O","n","e">>
      [] OTHER -> raw_chapter

pretty_chapter(book_title, raw_chapter) ==
    IF eq_ignore_ascii_case(book_title, <<"T","h","e"," ","H","o","p","e"," ","o","f"," ","E","l","a","n","t","r","i","s">>) THEN << >>
    ELSE IF to_ascii_lowercase(raw_chapter) = <<"p","r","o","l","o","g","u","e">> THEN <<"P","r","o","l","o","g","u","e">>
    ELSE IF to_ascii_lowercase(raw_chapter) = <<"e","p","i","l","o","g","u","e">> THEN <<"E","p","i","l","o","g","u","e">>
    ELSE IF starts_with(to_ascii_lowercase(raw_chapter), <<"c","h","a","p","t","e","r">>)
         THEN <<"C","h","a","p","t","e","r"," ">>
              \o trim_start_matches(SelectSeq(raw_chapter, is_ascii_digit), "0")
    ELSE IF starts_with(raw_chapter, <<"x">>) /\ ends_with(raw_chapter, <<".","h","t","m","l">>)
         THEN handle_secret_history_chapter(raw_chapter)
    ELSE map_by_hand(raw_chapter)

----------------------------------------------------------------------------
(* archives: what EpubDoc and the html2text renderer hand to the pipeline *)

Digits == <<"0","1","2","3","4","5","6","7","8","9">>

\* the spine entry of a page that the archive does not name otherwise
chapter_id(i) == <<"c","h","a","p","t","e","r">> \o <<Digits[(i \div 10) + 1], Digits[(i % 10) + 1]>> \o <<".","h","t","m","l">>

\* doc.spine[chapter_index]
spine(d, i) == IF i \in DOMAIN d.named THEN d.named[i] ELSE chapter_id(i)

\* page_content.lines() of page i: the rendered lines (a page without text has none)
page_content(d, i) == IF i \in DOMAIN d.pages THEN d.pages[i] ELSE << >>

----------------------------------------------------------------------------
(* the line cleaner and the records *)

normalize(it) ==
    replace(replace(replace(it, <<"*","*">>, << >>), <<"."," ","."," ",".">>, <<"U+2026">>), <<" ","U+2026">>, <<"U+2026">>)

\* faulty variant: the title filter ignores ASCII case
clean_title_ignore_case(lines, chapter_title_) ==
    LET not_ignorable(it) == ~is_ignorable_line(it)
        not_title(it) ==
            ~ends_with(to_ascii_lowercase(chapter_title_), to_ascii_lowercase(it))
        kept == SelectSeq(SelectSeq(lines, not_ignorable), not_title)
    IN  [i \in 1..Len(kept) |-> normalize(kept[i])]

clean(lines, chapter_title_) ==
    LET not_ignorable(it) == ~is_ignorable_line(it)
        not_title(it) == ~ends_with(chapter_title_, it)
        kept == SelectSeq(SelectSeq(lines, not_ignorable), not_title)
    IN  [i \in 1..Len(kept) |-> normalize(kept[i])]

\* faulty variant: only a border empties the fragment, an ignorable neighbour does not
prev_line_border_only(prev) ==
    IF is_scene_border(prev) THEN << >> ELSE prev \o <<"<","/","p",">","<","p",">">>

prev_line(prev) ==
    IF is_scene_border(prev) \/ is_ignorable_line(prev) THEN << >>
    ELSE prev \o <<"<","/","p",">","<","p",">">>

next_line(next) ==
    IF is_scene_border(next) \/ is_ignorable_line(next) THEN << >>
    ELSE <<"<","/","p",">","<","p",">">> \o next

searchable_text(curr) == replace(replace(curr, <<"<","e","m",">">>, << >>), <<"<","/","e","m",">">>, << >>)

\* faulty variant: searchable_text carries the whole window, as display_text does
OutputSchema_searchable_context(book_title, raw_chapter, prev, curr, next) ==
    [ book_title      |-> book_title,
      chapter_title   |-> pretty_chapter(book_title, raw_chapter),
      searchable_text |-> prev_line(prev) \o curr \o next_line(next),
      display_text    |-> prev_line(prev) \o curr \o next_line(next) ]

OutputSchema(book_title, raw_chapter, prev, curr, next) ==
    [ book_title      |-> book_title,
      chapter_title   |-> pretty_chapter(book_title, raw_chapter),
      searchable_text |-> searchable_text(curr),
      display_text    |-> prev_line(prev) \o curr \o next_line(next) ]

----------------------------------------------------------------------------
(* the program *)

VARIABLES
    pc,                 \* "main": the loop over epub_files; "chapter": the loop over
                        \* the page range; "window": the loop over windows(3);
                        \* "done": main returned Ok; or the message of the panic
                        \* that ended the process
    epub_files,         \* the archives of the working directory, in read_dir order
    file_no,            \* how many of them the loop in main has taken
    doc,                \* the archive being parsed
    book,               \* the descriptor parse_and_write_book was called with
    chapter_index,
    chapter_title,      \* doc.spine[chapter_index], the raw page identifier
    lines_i_care_about,
    window,             \* 0-based start of the next window of windows(3)
    outfile,            \* the records written to output.json, in file order
    written_for,        \* history: for each record of outfile, its archive and page
    visited             \* history: the pages of doc that set_current_page selected

vars == <<pc, epub_files, file_no, doc, book, chapter_index, chapter_title,
          lines_i_care_about, window, outfile, written_for, visited>>

\* has_title: whether mdata("title") is Some
\* the messages of the two .expect() calls
PanicTitle == "All ePubs must have a title"
PanicPage == "Indexes used in skippable_chapters must be valid"

\* before the first archive is matched there is no descriptor and no document
NoBook == [title |-> << >>, first_chapter_index |-> 0, last_chapter_index |-> 0,
           skippable_chapters |-> << >>]

NoDoc == [has_title |-> FALSE, title |-> << >>, npages |-> 0, named |-> << >>,
          pages |-> << >>]

\* for path in epub_files: an archive whose title matches a descriptor
OpenMatched ==
    /\ pc = "main"
    /\ file_no < Len(epub_files)
    /\ LET d == epub_files[file_no + 1] IN
         /\ d.has_title
         /\ find(d.title) # 0
         /\ doc' = d
         /\ book' = all_books[find(d.title)]
         /\ chapter_index' = all_books[find(d.title)].first_chapter_index
    /\ file_no' = file_no + 1
    /\ visited' = << >>
    /\ pc' = "chapter"
    /\ UNCHANGED <<epub_files, chapter_title, lines_i_care_about, window,
                   outfile, written_for>>

\* an archive no descriptor matches: nothing is parsed
OpenUnmatched ==
    /\ pc = "main"
    /\ file_no < Len(epub_files)
    /\ epub_files[file_no + 1].has_title
    /\ find(epub_files[file_no + 1].title) = 0
    /\ file_no' = file_no + 1
    /\ UNCHANGED <<pc, epub_files, doc, book, chapter_index, chapter_title,
                   lines_i_care_about, window, outfile, written_for, visited>>

\* .expect("All ePubs must have a title") panics
OpenUntitled ==
    /\ pc = "main"
    /\ file_no < Len(epub_files)
    /\ ~epub_files[file_no + 1].has_title
    /\ pc' = PanicTitle
    /\ file_no' = file_no + 1
    /\ UNCHANGED <<epub_files, doc, book, chapter_index, chapter_title,
                   lines_i_care_about, window, outfile, written_for, visited>>

\* the loop over epub_files is exhausted: Ok(())
Finish ==
    /\ pc = "main"
    /\ file_no = Len(epub_files)
    /\ pc' = "done"
    /\ UNCHANGED <<epub_files, file_no, doc, book, chapter_index, chapter_title,
                   lines_i_care_about, window, outfile, written_for, visited>>

\* faulty variant: the range excludes last_chapter_index
in_range_exclusive == chapter_index < book.last_chapter_index

\* chapter_index has not run past book.first_chapter_index..=book.last_chapter_index
in_range == chapter_index <= book.last_chapter_index

\* book.skippable_chapters.contains(&chapter_index)
skippable ==
    \E k \in DOMAIN book.skippable_chapters :
        book.skippable_chapters[k] = chapter_index

\* if book.skippable_chapters.contains(&chapter_index) { continue; }
SkipChapter ==
    /\ pc = "chapter"
    /\ in_range
    /\ skippable
    /\ chapter_index' = chapter_index + 1
    /\ UNCHANGED <<pc, epub_files, file_no, doc, book, chapter_title,
                   lines_i_care_about, window, outfile, written_for, visited>>

\* faulty variant: the Err is swallowed and the loop goes on with the next page
InvalidPage_swallowed ==
    /\ pc = "chapter"
    /\ in_range
    /\ ~skippable
    /\ chapter_index >= doc.npages
    /\ chapter_index' = chapter_index + 1
    /\ UNCHANGED <<pc, epub_files, file_no, doc, book, chapter_title,
                   lines_i_care_about, window, outfile, written_for, visited>>

\* set_current_page(chapter_index) is an Err: .expect panics
InvalidPage ==
    /\ pc = "chapter"
    /\ in_range
    /\ ~skippable
    /\ chapter_index >= doc.npages
    /\ pc' = PanicPage
    /\ UNCHANGED <<epub_files, file_no, doc, book, chapter_index, chapter_title,
                   lines_i_care_about, window, outfile, written_for, visited>>

\* the page is selected, rendered and cleaned
VisitPage ==
    /\ pc = "chapter"
    /\ in_range
    /\ ~skippable
    /\ chapter_index < doc.npages
    /\ visited' = Append(visited, chapter_index)
    /\ chapter_title' = spine(doc, chapter_index)
    /\ lines_i_care_about' =
           clean(page_content(doc, chapter_index), spine(doc, chapter_index))
    /\ window' = 0
    /\ pc' = "window"
    /\ UNCHANGED <<epub_files, file_no, doc, book, chapter_index, outfile,
                   written_for>>

\* the page range is exhausted: parse_and_write_book returns
BookDone ==
    /\ pc = "chapter"
    /\ ~in_range
    /\ pc' = "main"
    /\ UNCHANGED <<epub_files, file_no, doc, book, chapter_index, chapter_title,
                   lines_i_care_about, window, outfile, written_for, visited>>

has_window == window + 3 <= Len(lines_i_care_about)

\* if is_scene_border(curr) { continue; }
WindowSkip ==
    /\ pc = "window"
    /\ has_window
    /\ is_scene_border(lines_i_care_about[window + 2])
    /\ window' = window + 1
    /\ UNCHANGED <<pc, epub_files, file_no, doc, book, chapter_index,
                   chapter_title, lines_i_care_about, outfile, written_for, visited>>

\* one record is serialized and written
WindowEmit ==
    /\ pc = "window"
    /\ has_window
    /\ ~is_scene_border(lines_i_care_about[window + 2])
    /\ outfile' = Append(outfile,
           OutputSchema(book.title, chapter_title,
                        lines_i_care_about[window + 1],
                        lines_i_care_about[window + 2],
                        lines_i_care_about[window + 3]))
    /\ written_for' = Append(written_for, [file |-> file_no, page |-> chapter_index])
    /\ window' = window + 1
    /\ UNCHANGED <<pc, epub_files, file_no, doc, book, chapter_index,
                   chapter_title, lines_i_care_about, visited>>

\* windows(3) is exhausted: the next chapter_index
PageDone ==
    /\ pc = "window"
    /\ ~has_window
    /\ chapter_index' = chapter_index + 1
    /\ chapter_title' = << >>
    /\ lines_i_care_about' = << >>
    /\ window' = 0
    /\ pc' = "chapter"
    /\ UNCHANGED <<epub_files, file_no, doc, book, outfile,
                   written_for, visited>>

Next ==
    \/ OpenMatched
    \/ OpenUnmatched
    \/ OpenUntitled
    \/ Finish
    \/ SkipChapter
    \/ InvalidPage
    \/ VisitPage
    \/ BookDone
    \/ WindowSkip
    \/ WindowEmit
    \/ PageDone

----------------------------------------------------------------------------
(* runs from the start of main, over a small library of archives *)

MaxFiles == 2

\* an archive of npages pages that all render to the same lines
Archive(title, npages, named, body) ==
    [has_title |-> TRUE, title |-> title, npages |-> npages, named |-> named,
     pages |-> [i \in 0..(npages - 1) |-> body]]

\* the same archive without title metadata
Untitled(d) == [d EXCEPT !.has_title = FALSE, !.title = << >>]

Body3 == << <<"A">>, <<"<","e","m",">","B","<","/","e","m",">">>, <<"7","9","5","f","8","8","d","2","-","e","4","0","0","-","4","2","f","0","-","b","b","8","8","-","d","8","4","c","f","3","0","8","d","e","1","b">> >>

Body5 == << <<"A">>, <<"*"," ","*"," ","*">>, <<"B">>, <<"C">>, <<"D">> >>

Library == {
    Archive(<<"S","h","a","d","o","w","s"," ","o","f"," ","S","e","l","f">>, 38, (7 :> <<"p","r","o","l","o","g","u","e">>), Body3),
    Archive(<<"M","I","S","T","B","O","R","N",":"," ","S","H","A","D","O","W","S"," ","O","F"," ","S","E","L","F">>, 30, << >>, Body3),
    Archive(<<"A","r","c","a","n","u","m"," ","U","n","b","o","u","n","d","e","d",":"," ","T","h","e"," ","C","o","s","m","e","r","e"," ","C","o","l","l","e","c","t","i","o","n">>, 30, << >>, Body3),
    Archive(<<"a","r","c","a","n","u","m"," ","u","n","b","o","u","n","d","e","d">>, 30, << >>, Body3),
    Archive(<<"T","h","e"," ","E","m","p","e","r","o","r","'","s"," ","S","o","u","l">>, 19,
            (3 :> <<"P","r","o","l","o","g","u","e",".","h","t","m","l">> @@ 4 :> <<"D","a","y","_","0","2",".","h","t","m","l">> @@ 18 :> <<"E","p","i","l","o","g","u","e",".","h","t","m","l">>),
            Body5),
    Archive(<<"T","h","e"," ","A","l","l","o","y"," ","o","f"," ","L","a","w">>, 12, << >>, Body5),
    Archive(<<"A","r","c","a","n","u","m"," ","U","n","b","o","u","n","d","e","d",":"," ","S","e","c","r","e","t"," ","H","i","s","t","o","r","y">>, 9,
            (5 :> <<"x","1","_","1",".","h","t","m","l">> @@ 6 :> <<"x","1","_","2",".","h","t","m","l">>), Body3),
    Untitled(Archive(<<"W","a","r","b","r","e","a","k","e","r">>, 30, << >>, Body3)) }

Init ==
    /\ pc = "main"
    /\ epub_files \in UNION { [1..n -> Library] : n \in 0..MaxFiles }
    /\ file_no = 0
    /\ doc = NoDoc
    /\ book = NoBook
    /\ chapter_index = 0
    /\ chapter_title = << >>
    /\ lines_i_care_about = << >>
    /\ window = 0
    /\ outfile = << >>
    /\ written_for = << >>
    /\ visited = << >>

Spec == Init /\ [][Next]_vars

----------------------------------------------------------------------------
(* runs from the last page of a book, over all short rendered pages *)

MaxLines == 4

PageLines == { <<"*"," ","*"," ","*">>, <<"*","*">>, <<"<","e","m",">","B","<","/","e","m",">"," ","."," ","."," ",".">>, <<"P","r","o","l","o","g","u","e">>, <<" ","~">>, <<"#","h">> }

Bodies == UNION { [1..n -> PageLines] : n \in 0..MaxLines }

\* <<index in all_books, identifier of the book's last page>>
LastPages == {
    <<5, <<"p","r","o","l","o","g","u","e">>>>, <<5, <<"E","P","I","L","O","G","U","E">>>>,
    <<6, <<"P","r","o","l","o","g","u","e",".","h","t","m","l">>>>, <<6, <<"E","p","i","l","o","g","u","e",".","h","t","m","l">>>>, <<6, <<"p","r","o","l","o","g","u","e",".","h","t","m","l">>>>,
    <<7, <<"P","r","o","l","o","g","u","e">>>> }

\* an archive whose pages are blank but for the last page of the book's range
LastPageDoc(b, id, body) ==
    [has_title |-> TRUE,
     title  |-> all_books[b].title,
     npages |-> all_books[b].last_chapter_index + 1,
     named  |-> (all_books[b].last_chapter_index :> id),
     pages  |-> (all_books[b].last_chapter_index :> body)]

\* the pages of book b that the page loop has selected when it reaches the last one
VisitedBeforeLast(b) ==
    LET first == all_books[b].first_chapter_index
        last == all_books[b].last_chapter_index
        skip == all_books[b].skippable_chapters
        not_skipped(i) == \A k \in DOMAIN skip : skip[k] # i
    IN  SelectSeq([k \in 1..(last - first) |-> first + k - 1], not_skipped)

Rest == {
    << >>,
    << Archive(<<"T","h","e"," ","A","l","l","o","y"," ","o","f"," ","L","a","w">>, 12, << >>, Body3) >>,
    << Archive(<<"E","l","a","n","t","r","i","s">>, 30, << >>, Body3) >>,
    << Untitled(Archive(<<"W","a","r","b","r","e","a","k","e","r">>, 30, << >>, Body3)) >> }

\* The state at the head of the page loop for the last page of the range: every
\* earlier page was blank, so nothing has been written yet.
InitPage ==
    \E p \in LastPages, body \in Bodies, rest \in Rest :
        /\ (rest # << >> => Len(body) <= 1)
        /\ pc = "chapter"
        /\ epub_files = <<LastPageDoc(p[1], p[2], body)>> \o rest
        /\ file_no = 1
        /\ doc = LastPageDoc(p[1], p[2], body)
        /\ book = all_books[p[1]]
        /\ chapter_index = all_books[p[1]].last_chapter_index
        /\ chapter_title = << >>
        /\ lines_i_care_about = << >>
        /\ window = 0
        /\ outfile = << >>
        /\ written_for = << >>
        /\ visited = VisitedBeforeLast(p[1])

SpecPage == InitPage /\ [][Next]_vars

----------------------------------------------------------------------------
(* runs from a call of parse_and_write_book, over the descriptors of the     *)
(* catalog and over all descriptors with small page indices                  *)

MaxIndex == 3

\* the elements of a set of indices as a Vec, ascending
AsVec(S) ==
    CHOOSE v \in [1..Cardinality(S) -> S] :
        \A i, j \in 1..Cardinality(S) : i < j => v[i] < v[j]

SmallBooks ==
    { [title |-> <<"W","a","r","b","r","e","a","k","e","r">>, first_chapter_index |-> f, last_chapter_index |-> l,
       skippable_chapters |-> AsVec(S)] :
          f \in 0..MaxIndex, l \in 0..MaxIndex, S \in SUBSET (0..MaxIndex) }

\* <<descriptor, number of pages of the archive>>
Calls ==
    (SmallBooks \X (0..(MaxIndex + 1)))
    \cup { <<all_books[i], all_books[i].last_chapter_index + 1>> : i \in DOMAIN all_books }

\* The state in which main calls parse_and_write_book(book, doc, &file) for the
\* first archive: nothing has been written yet.
InitBook ==
    \E c \in Calls, body \in {<< >>, Body5}, rest \in Rest :
        /\ (rest # << >> => c[2] = 0 /\ body = << >>)
        /\ pc = "chapter"
        /\ epub_files = <<Archive(c[1].title, c[2], << >>, body)>> \o rest
        /\ file_no = 1
        /\ doc = Archive(c[1].title, c[2], << >>, body)
        /\ book = c[1]
        /\ chapter_index = c[1].first_chapter_index
        /\ chapter_title = << >>
        /\ lines_i_care_about = << >>
        /\ window = 0
        /\ outfile = << >>
        /\ written_for = << >>
        /\ visited = << >>

SpecBook == InitBook /\ [][Next]_vars

----------------------------------------------------------------------------
(* what the properties below read off a state *)

aborted == pc \in {PanicTitle, PanicPage}

\* the window loop of the current page is exhausted
at_page_end == pc = "window" /\ ~has_window

\* the records written so far for the current page, in file order
page_records ==
    LET here(k) == written_for[k] = [file |-> file_no, page |-> chapter_index]
        at == SelectSeq([k \in 1..Len(outfile) |-> k], here)
    IN  [k \in 1..Len(at) |-> outfile[at[k]]]

\* exact membership in the three sentinels, written out
ExactBorder(line) ==
    \/ line = <<"*"," ","*"," ","*">>
    \/ line = <<"~">>
    \/ line = <<"7","9","5","f","8","8","d","2","-","e","4","0","0","-","4","2","f","0","-","b","b","8","8","-","d","8","4","c","f","3","0","8","d","e","1","b">>

\* the positions (1-based, in lines_i_care_about) of the centres of the windows
\* taken so far that are not exactly a sentinel, ascending
centres ==
    LET centre_ok(i) == ~ExactBorder(lines_i_care_about[i])
    IN  SelectSeq([w \in 1..window |-> w + 1], centre_ok)

\* the paragraph marker pair
Marker == <<"<","/","p",">","<","p",">">>

\* the fragment of a neighbour line, as the window assembler's contract states it
Fragment(line, before) ==
    IF ExactBorder(line) \/ is_ignorable_line(line) THEN << >>
    ELSE IF before THEN line \o Marker ELSE Marker \o line

----------------------------------------------------------------------------
(* C1: every record of a page has display_text = prevFragment + curr +       *)
(* nextFragment, where the fragment of a neighbour is empty when the         *)
(* neighbour is a scene border or an ignorable line, and otherwise is the    *)
(* neighbour joined to curr by "</p><p>".                                    *)
C1_DisplayText ==
    pc = "window" =>
        \A k \in DOMAIN centres :
            /\ k \in DOMAIN page_records
            /\ page_records[k].display_text =
                   Fragment(lines_i_care_about[centres[k] - 1], TRUE)
                   \o lines_i_care_about[centres[k]]
                   \o Fragment(lines_i_care_about[centres[k] + 1], FALSE)

\* A page of four cleaned lines that starts with a border: the record centred on
\* the second line has no prev fragment, the one centred on the third has both.
C1_Witness ==
    /\ at_page_end
    /\ Len(lines_i_care_about) = 4
    /\ lines_i_care_about[1] = <<"*"," ","*"," ","*">>
    /\ lines_i_care_about[4] = <<" ","~">>
    /\ Len(page_records) = 2
    /\ page_records[1].display_text = <<"<","e","m",">","B","<","/","e","m",">","U+2026","<","/","p",">","<","p",">","P","r","o","l","o","g","u","e">>
    /\ page_records[2].display_text = <<"<","e","m",">","B","<","/","e","m",">","U+2026","<","/","p",">","<","p",">","P","r","o","l","o","g","u","e","<","/","p",">","<","p",">"," ","~">>

(* C2: a page of n cleaned lines yields one record for each position         *)
(* 1 <= i <= n-2 (0-based) whose line is not a scene border, in ascending    *)
(* order, and no other; fewer than 3 lines yield none.                       *)
C2_OneRecordPerInteriorLine ==
    pc = "window" =>
        /\ Len(page_records) = Len(centres)
        /\ \A k \in DOMAIN centres :
               page_records[k].searchable_text =
                   searchable_text(lines_i_care_about[centres[k]])
        /\ \A k \in DOMAIN centres :
               /\ centres[k] > 1
               /\ centres[k] < Len(lines_i_care_about)
        /\ at_page_end =>
               /\ window = (IF Len(lines_i_care_about) < 3 THEN 0
                            ELSE Len(lines_i_care_about) - 2)
               /\ Len(page_records) =
                      Cardinality({ i \in 2..(Len(lines_i_care_about) - 1) :
                                        ~ExactBorder(lines_i_care_about[i]) })

\* four cleaned lines, the second a border and the third not: one record, for
\* the third line
C2_Witness ==
    /\ at_page_end
    /\ Len(lines_i_care_about) = 4
    /\ ExactBorder(lines_i_care_about[2])
    /\ ~ExactBorder(lines_i_care_about[3])
    /\ Len(page_records) = 1
    /\ page_records[1].searchable_text = <<"P","r","o","l","o","g","u","e">>

(* C3 as stated: the searchable_text values of a page are exactly its        *)
(* non-ignorable, non-border cleaned lines, none lost and none emitted       *)
(* twice.                                                                    *)
C3_RoundTrip_AsStated ==
    at_page_end =>
        /\ { page_records[k].searchable_text : k \in DOMAIN page_records } =
           { replace(replace(lines_i_care_about[i], <<"<","e","m",">">>, << >>), <<"<","/","e","m",">">>, << >>) :
             i \in
               { j \in DOMAIN lines_i_care_about :
                   /\ ~is_ignorable_line(lines_i_care_about[j])
                   /\ ~ExactBorder(lines_i_care_about[j]) } }
        /\ \A k, m \in DOMAIN page_records :
               page_records[k].searchable_text = page_records[m].searchable_text
                   => k = m

(* C3 as amended: the searchable_text values of a page are exactly the       *)
(* cleaned lines at the interior positions (neither first nor last) that are *)
(* not scene borders, with the emphasis markers removed, one record per such *)
(* position.                                                                 *)
C3_RoundTrip_Interior ==
    at_page_end =>
        LET interior == { i \in 2..(Len(lines_i_care_about) - 1) :
                              ~ExactBorder(lines_i_care_about[i]) }
        IN  /\ { page_records[k].searchable_text : k \in DOMAIN page_records } =
               { replace(replace(lines_i_care_about[i], <<"<","e","m",">">>, << >>),
                         <<"<","/","e","m",">">>, << >>) : i \in interior }
            /\ Len(page_records) = Cardinality(interior)

\* the first and the last line are lost, the same text is emitted twice and the
\* emphasis markers are gone from it
C3_Witness ==
    /\ at_page_end
    /\ lines_i_care_about = << <<"P","r","o","l","o","g","u","e">>, <<"<","e","m",">","B","<","/","e","m",">","U+2026">>, <<"<","e","m",">","B","<","/","e","m",">","U+2026">>, <<" ","~">> >>
    /\ Len(page_records) = 2
    /\ page_records[1].searchable_text = <<"B","U+2026">>
    /\ page_records[2].searchable_text = <<"B","U+2026">>

\* the chapter_title the claim C7 expects for a page identifier, << >> where it
\* says nothing
C7_Expected(raw, with_html) ==
    IF eq_ignore_ascii_case(raw, <<"p","r","o","l","o","g","u","e">>) THEN <<"P","r","o","l","o","g","u","e">>
    ELSE IF eq_ignore_ascii_case(raw, <<"e","p","i","l","o","g","u","e">>) THEN <<"E","p","i","l","o","g","u","e">>
    ELSE IF with_html /\ eq_ignore_ascii_case(raw, <<"P","r","o","l","o","g","u","e",".","h","t","m","l">>) THEN <<"P","r","o","l","o","g","u","e">>
    ELSE IF with_html /\ eq_ignore_ascii_case(raw, <<"E","p","i","l","o","g","u","e",".","h","t","m","l">>) THEN <<"E","p","i","l","o","g","u","e">>
    ELSE << >>

(* C7 as stated: in a book that is not title-suppressed, a page identifier   *)
(* equal to "prologue" or "Prologue.html" ignoring ASCII case gives the      *)
(* chapter_title "Prologue", and one equal to "epilogue" or "Epilogue.html"  *)
(* ignoring ASCII case gives "Epilogue".                                     *)
C7_PrologueEpilogue_AsStated ==
    (pc = "window" /\ book.title # <<"T","h","e"," ","H","o","p","e"," ","o","f"," ","E","l","a","n","t","r","i","s">>
        /\ C7_Expected(chapter_title, TRUE) # << >>) =>
        \A k \in DOMAIN page_records :
            page_records[k].chapter_title = C7_Expected(chapter_title, TRUE)

(* C7 as amended: "prologue" and "epilogue" ignoring ASCII case give         *)
(* "Prologue" and "Epilogue"; of the .html names only the exact identifier   *)
(* "Prologue.html" gives "Prologue"; the exact "Epilogue.html" gives         *)
(* "Epilogue: Day One Hundred and One", and any other spelling of the two    *)
(* .html names is returned unchanged.                                        *)
C7_PrologueEpilogue ==
    (pc = "window" /\ book.title # <<"T","h","e"," ","H","o","p","e"," ","o","f"," ","E","l","a","n","t","r","i","s">>) =>
        \A k \in DOMAIN page_records :
            /\ C7_Expected(chapter_title, FALSE) # << >> =>
                   page_records[k].chapter_title = C7_Expected(chapter_title, FALSE)
            /\ chapter_title = <<"P","r","o","l","o","g","u","e",".","h","t","m","l">> =>
                   page_records[k].chapter_title = <<"P","r","o","l","o","g","u","e">>
            /\ chapter_title = <<"E","p","i","l","o","g","u","e",".","h","t","m","l">> =>
                   page_records[k].chapter_title = <<"E","p","i","l","o","g","u","e",":"," ","D","a","y"," ","O","n","e"," ","H","u","n","d","r","e","d"," ","a","n","d"," ","O","n","e">>
            /\ ( /\ \/ eq_ignore_ascii_case(chapter_title, <<"P","r","o","l","o","g","u","e",".","h","t","m","l">>)
                    \/ eq_ignore_ascii_case(chapter_title, <<"E","p","i","l","o","g","u","e",".","h","t","m","l">>)
                 /\ chapter_title \notin {<<"P","r","o","l","o","g","u","e",".","h","t","m","l">>, <<"E","p","i","l","o","g","u","e",".","h","t","m","l">>} ) =>
                   page_records[k].chapter_title = chapter_title

\* a record of the page "Prologue.html" of The Emperor's Soul
C7_Witness ==
    /\ pc = "window"
    /\ book.title = <<"T","h","e"," ","E","m","p","e","r","o","r","'","s"," ","S","o","u","l">>
    /\ chapter_title = <<"P","r","o","l","o","g","u","e",".","h","t","m","l">>
    /\ Len(page_records) > 0
    /\ page_records[1].chapter_title = <<"P","r","o","l","o","g","u","e">>

\* lines on which the border detector is probed besides the lines of the page
BorderProbes == {
    <<"*"," ","*"," ","*">>, <<"~">>, <<"7","9","5","f","8","8","d","2","-","e","4","0","0","-","4","2","f","0","-","b","b","8","8","-","d","8","4","c","f","3","0","8","d","e","1","b">>,
    <<" ","*"," ","*"," ","*">>, <<"*"," ","*"," ","*"," ">>, <<"~"," ">>, <<"~","~">>, <<"*"," ","*">>, << >>,
    <<"7","9","5","f","8","8","d","2","-","e","4","0","0","-","4","2","f","0","-","b","b","8","8","-","d","8","4","c","f","3","0","8","d","e","1","b"," ">> }

\* the lines of the page that the window loop hands to is_scene_border
C8_Lines == { lines_i_care_about[i] : i \in DOMAIN lines_i_care_about }

\* the windows taken so far whose centre is not a sentinel once trimmed
C8_EmittingTrimmed ==
    { w \in 1..window : ~ExactBorder(trim(lines_i_care_about[w + 1])) }

\* the windows taken so far whose centre is not exactly a sentinel
C8_EmittingExact ==
    { w \in 1..window : ~ExactBorder(lines_i_care_about[w + 1]) }

(* C8 as stated: a line is a scene border exactly when, after trimming       *)
(* surrounding whitespace, it equals "* * *", "~" or the image-alt sentinel. *)
C8_SceneBorder_AsStated ==
    pc = "window" =>
        /\ \A line \in C8_Lines : is_scene_border(line) <=> ExactBorder(trim(line))
        /\ Len(page_records) = Cardinality(C8_EmittingTrimmed)

(* C8 as amended: a line is a scene border exactly when it equals, untrimmed,*)
(* "* * *", "~" or the image-alt sentinel; a line that contains a sentinel   *)
(* as a proper substring, surrounding whitespace included, is not a border.  *)
C8_SceneBorder ==
    pc = "window" =>
        /\ \A line \in C8_Lines \cup BorderProbes :
               is_scene_border(line) <=> ExactBorder(line)
        /\ Len(page_records) = Cardinality(C8_EmittingExact)

\* a window centred on " ~" has emitted a record, one centred on "* * *" has not
C8_Witness ==
    /\ at_page_end
    /\ lines_i_care_about = << <<"P","r","o","l","o","g","u","e">>, <<" ","~">>, <<"*"," ","*"," ","*">>, <<"P","r","o","l","o","g","u","e">> >>
    /\ Len(page_records) = 1
    /\ page_records[1].searchable_text = <<" ","~">>

\* the rendered lines of the current page
C9_Rendered == page_content(doc, chapter_index)

\* how many rendered lines of the current page survive when, besides the
\* ignorable lines, the lines that `title` ends with are dropped
C9_Kept(title) ==
    Cardinality({ i \in DOMAIN C9_Rendered :
                      /\ ~is_ignorable_line(C9_Rendered[i])
                      /\ ~ends_with(title, C9_Rendered[i]) })

(* C9 as stated: a rendered line is dropped whenever the chapter's display   *)
(* name, the chapter_title written to the records, ends with it: no more     *)
(* lines reach the windows than the rendered lines that are neither          *)
(* ignorable nor a suffix of the display name.                               *)
C9_TitleLine_AsStated ==
    pc = "window" =>
        Len(lines_i_care_about) <= C9_Kept(pretty_chapter(book.title, chapter_title))

(* C9 as amended: a rendered line is dropped whenever the raw page           *)
(* identifier doc.spine[chapter_index], the input of the chapter-title       *)
(* normalizer and not its result, ends with that exact line text, in         *)
(* addition to the ignorable lines; the rendered lines that reach the        *)
(* windows are exactly the others, normalized.                               *)
C9_TitleLine ==
    pc = "window" =>
        /\ Len(lines_i_care_about) = C9_Kept(spine(doc, chapter_index))
        /\ \A i \in DOMAIN lines_i_care_about :
               \E j \in DOMAIN C9_Rendered :
                   /\ ~is_ignorable_line(C9_Rendered[j])
                   /\ ~ends_with(spine(doc, chapter_index), C9_Rendered[j])
                   /\ lines_i_care_about[i] = normalize(C9_Rendered[j])

\* page "Prologue": its rendered title line "Prologue" is dropped, the other
\* three lines reach the window loop
C9_Witness ==
    /\ pc = "window"
    /\ chapter_title = <<"P","r","o","l","o","g","u","e">>
    /\ C9_Rendered = << <<"P","r","o","l","o","g","u","e">>, <<" ","~">>, <<"<","e","m",">","B","<","/","e","m",">"," ","."," ","."," ",".">>, <<" ","~">> >>
    /\ lines_i_care_about = << <<" ","~">>, <<"<","e","m",">","B","<","/","e","m",">","U+2026">>, <<" ","~">> >>

(* C10: every record written has a centre line that is not ignorable after   *)
(* the cleaner's normalization, so no record has an empty searchable_text.   *)
C10_NarrativeCentre ==
    /\ \A k \in DOMAIN outfile : outfile[k].searchable_text # << >>
    /\ pc = "window" =>
           \A k \in DOMAIN centres : ~is_ignorable_line(lines_i_care_about[centres[k]])

----------------------------------------------------------------------------
\* whether sequence s is a prefix of sequence t
IsPrefix(s, t) == Len(s) <= Len(t) /\ SubSeq(t, 1, Len(s)) = s

\* the indices of b.first_chapter_index..=b.last_chapter_index that are not in
\* b.skippable_chapters, ascending
ExpectedPages(b) ==
    LET skip == b.skippable_chapters
        not_skipped(i) == \A k \in DOMAIN skip : skip[k] # i
    IN  SelectSeq([k \in 1..(b.last_chapter_index - b.first_chapter_index + 1) |->
                       b.first_chapter_index + k - 1], not_skipped)

(* C4: the pages parse_and_write_book visits are the indices of the          *)
(* inclusive range first_chapter_index..last_chapter_index that are not in   *)
(* skippable_chapters, once each and ascending; no record is written for a   *)
(* skipped page; a skipped index, the last one included, never stops the run.*)
C4_PagesVisited ==
    /\ IsPrefix(visited, ExpectedPages(book))
    /\ (pc \in {"main", "done"} /\ book # NoBook) => visited = ExpectedPages(book)
    /\ \A k \in DOMAIN written_for :
           written_for[k].file = file_no =>
               /\ \E v \in DOMAIN visited : visited[v] = written_for[k].page
               /\ \A s \in DOMAIN book.skippable_chapters :
                      book.skippable_chapters[s] # written_for[k].page
    /\ pc = PanicPage =>
           /\ chapter_index >= doc.npages
           /\ \E e \in DOMAIN ExpectedPages(book) :
                  ExpectedPages(book)[e] = chapter_index

\* "Shadows of Self" has been parsed: pages 7-37 without 8, 13 and 31, two
\* records for each of the 28 pages
C4_Witness ==
    /\ pc = "main"
    /\ book.title = <<"S","h","a","d","o","w","s"," ","o","f"," ","S","e","l","f">>
    /\ visited = << 7, 9, 10, 11, 12, 14, 15, 16, 17, 18, 19, 20, 21, 22, 23, 24, 25,
                    26, 27, 28, 29, 30, 32, 33, 34, 35, 36, 37 >>
    /\ Len(outfile) = 56
    /\ \A k \in DOMAIN written_for : written_for[k].page \notin {8, 13, 31}

\* the descriptor claim C5 selects for a declared title, 0 for none
C5_Selected(epub_title) ==
    LET lower == to_ascii_lowercase(epub_title)
        substring(i) == contains(lower, to_ascii_lowercase(all_books[i].title))
        anthology(i) ==
            /\ contains(epub_title, <<"A","r","c","a","n","u","m"," ","U","n","b","o","u","n","d","e","d">>)
            /\ all_books[i].title \in
                   { <<"T","h","e"," ","H","o","p","e"," ","o","f"," ","E","l","a","n","t","r","i","s">>, <<"T","h","e"," ","E","l","e","v","e","n","t","h"," ","M","e","t","a","l">>,
                     <<"A","l","l","o","m","a","n","c","e","r"," ","J","a","k"," ","a","n","d"," ","t","h","e"," ","P","i","t","s"," ","o","f"," ","E","l","t","a","n","i","a">>, <<"W","h","i","t","e"," ","S","a","n","d">>,
                     <<"S","h","a","d","o","w","s"," ","f","o","r"," ","S","i","l","e","n","c","e"," ","i","n"," ","t","h","e"," ","F","o","r","e","s","t","s"," ","o","f"," ","H","e","l","l">>,
                     <<"S","i","x","t","h"," ","o","f"," ","t","h","e"," ","D","u","s","k">>, <<"E","d","g","e","d","a","n","c","e","r">> }
    IN  IF \E i \in DOMAIN all_books : substring(i)
        THEN CHOOSE i \in DOMAIN all_books :
                 substring(i) /\ \A j \in 1..(i - 1) : ~substring(j)
        ELSE IF \E i \in DOMAIN all_books : anthology(i)
        THEN CHOOSE i \in DOMAIN all_books :
                 anthology(i) /\ \A j \in 1..(i - 1) : ~anthology(j)
        ELSE 0

\* a record is written only for an archive that C5 selects a descriptor for,
\* and carries that descriptor's title
C5_Records ==
    outfile' # outfile =>
        LET sel == C5_Selected(epub_files[file_no].title) IN
            /\ sel # 0
            /\ written_for'[Len(written_for')].file = file_no
            /\ outfile'[Len(outfile')].book_title = all_books[sel].title

\* taking a titled archive either starts parsing it with the selected descriptor
\* or, when none is selected, goes on to the next archive and writes nothing
C5_Step ==
    (pc = "main" /\ file_no' = file_no + 1 /\ epub_files[file_no + 1].has_title) =>
        LET sel == C5_Selected(epub_files[file_no + 1].title) IN
            IF sel = 0
            THEN pc' = "main" /\ outfile' = outfile
            ELSE /\ pc' = "chapter"
                 /\ book' = all_books[sel]
                 /\ chapter_index' = all_books[sel].first_chapter_index

(* C5: for every declared title at most one descriptor is selected: the      *)
(* first in catalog order whose title is a case-insensitive substring of the *)
(* declared title, or, when the declared title contains "Arcanum Unbounded", *)
(* the descriptor whose title is an anthology-piece title; when neither rule *)
(* selects one the archive is skipped and no record is written for it.       *)
C5_CatalogMatch == [][C5_Step /\ C5_Records]_vars

\* the anthology is parsed with the descriptor of "The Hope of Elantris" after
\* an archive that matched nothing was skipped
C5_Witness ==
    /\ pc = "main"
    /\ file_no = 2
    /\ epub_files[1].title = <<"a","r","c","a","n","u","m"," ","u","n","b","o","u","n","d","e","d">>
    /\ epub_files[2].title = <<"A","r","c","a","n","u","m"," ","U","n","b","o","u","n","d","e","d",":"," ","T","h","e"," ","C","o","s","m","e","r","e"," ","C","o","l","l","e","c","t","i","o","n">>
    /\ book.title = <<"T","h","e"," ","H","o","p","e"," ","o","f"," ","E","l","a","n","t","r","i","s">>
    /\ Len(outfile) = 1
    /\ written_for[1] = [file |-> 2, page |-> 28]

\* the output only grows at its end, and a panic writes nothing
C6_AppendOnly ==
    /\ IsPrefix(outfile, outfile')
    /\ aborted' => outfile' = outfile

\* a page of the range that is not skipped and is invalid for the archive
\* panics, at that page
C6_AbortsAtPage ==
    (pc = "chapter" /\ in_range /\ ~skippable /\ chapter_index >= doc.npages) =>
        /\ pc' = PanicPage
        /\ chapter_index' = chapter_index

\* after the panic every record is of an earlier archive or of an earlier page
\* of the archive that panicked
C6_Aborted ==
    pc = PanicPage =>
        /\ \A k \in DOMAIN written_for :
               \/ written_for[k].file < file_no
               \/ written_for[k].file = file_no /\ written_for[k].page < chapter_index

(* C6: when a page index the driver visits is invalid for the archive the    *)
(* run aborts at that page: no record is written for that page, a later page *)
(* or a later book, and the records written before stay, so the output is a  *)
(* prefix of records only ever appended.  As a property of steps: no step    *)
(* starts in the panicked state, every step keeps the records written, the   *)
(* step at an invalid page panics, and it leaves records of earlier pages    *)
(* and archives only.                                                        *)
C6_AbortKeepsPrefix ==
    [][pc # PanicPage /\ C6_AppendOnly /\ C6_AbortsAtPage /\ C6_Aborted']_vars

\* "The Alloy of Law" panicked at page 12 of a 12-page archive with its records
\* for pages 7-11 written, and a second archive is never opened
C6_Witness ==
    /\ pc = PanicPage
    /\ book.title = <<"T","h","e"," ","A","l","l","o","y"," ","o","f"," ","L","a","w">>
    /\ chapter_index = 12
    /\ doc.npages = 12
    /\ file_no = 1
    /\ Len(epub_files) = 2
    /\ Len(outfile) = 8
    /\ written_for[8] = [file |-> 1, page |-> 11]

====
